---------------------------- MODULE Spec2Model ----------------------------
(***************************************************************************)
(* Model of google_detector.py: the login detector, the qualification      *)
(* check (response interception, the two waits, the API classifier, the    *)
(* DOM fallback classifier, the link extractor) and full_google_detection. *)
(*                                                                         *)
(* Text (payloads, URLs, page markup, links) is a sequence of pieces: a    *)
(* payload is a sequence of one-character strings, a URL or a markup is a  *)
(* sequence of lexical pieces.  Python's `m in s` is SubstringIn(m, s).    *)
(***************************************************************************)
EXTENDS Naturals, Sequences, FiniteSets

VARIABLES
    pc,                 \* position of the one logical flow of a detection call
    calls,              \* number of full_google_detection calls started on the page
    listeners,          \* the page's "response" listeners: the calls whose handle_response is registered
    is_logged_in,       \* full_google_detection's local (FALSE until the login check says otherwise)
    selector_index,     \* check_google_login_by_avatar: index of the avatar selector being awaited
    tried,              \* avatar selectors awaited so far in this call, in order
    login_nav,          \* how the login check's page.goto ended: "pending", "ok", "timeout", "error"
    visible_log,        \* whether each awaited avatar locator became visible in time, in order
    nav_log,            \* page.goto targets issued in this call, in order
    on_calls,           \* page.on("response", ...) invocations in this call
    api_response_data,  \* check_google_one_status_v2's nonlocal api_response_data
    response_received,  \* the asyncio.Event response_received
    inflight,           \* bodies of the handle_response tasks suspended in `await response.text()`
    nresp,              \* responses the page emitted in this call
    missed,             \* matching responses emitted with no handler of this call registered
    timeouts,           \* the time bounds exceeded in this call
    failures,           \* the other exceptions the page's operations raised in this call
    classified_by,      \* which classifier produced the status: "none", "api" or "dom"
    dom,                \* what the page answered to _detect_page_elements' queries
    result,             \* the value full_google_detection returned
    response_text,      \* input of a stand-alone _parse_api_response call
    parse_result,       \* its return value
    dom_input,          \* the page's answers in a stand-alone _detect_page_elements call
    dom_result,         \* its return value
    extract_result      \* return value of a stand-alone _extract_sheerid_link call on the same page

vars == <<pc, calls, listeners, is_logged_in, selector_index, tried, login_nav, visible_log,
          nav_log, on_calls, api_response_data, response_received, inflight, nresp, missed,
          timeouts, failures, classified_by, dom, result, response_text, parse_result,
          dom_input, dom_result, extract_result>>

---------------------------------------------------------------------------
(* Bounds of the model. *)

\* detection calls made on the one page
MaxCalls == 2
\* responses the page emits during one call
MaxResponses == 2
\* pieces a stand-alone payload is assembled from
MaxFrags == 4

---------------------------------------------------------------------------
(* Text. *)

\* Python's None, for a text-valued variable
None == <<"<None>">>

\* Python's truth value of an Optional[str]
Truthy(s) == s # None /\ s # <<>>

\* Python's `m in s` for strings
SubstringIn(m, s) ==
    \E i \in 0..Len(s) :
        /\ i + Len(m) <= Len(s)
        /\ \A k \in 1..Len(m) : s[i + k] = m[k]

Marker2TBSpaced == <<"2", " ", "T", "B">>
Marker2TB == <<"2", "T", "B">>
Marker2TBQuoted == <<"\"", "2", " ", "T", "B", "\"">>
MarkerAntigravity == <<"A", "n", "t", "i", "g", "r", "a", "v", "i", "t", "y">>
MarkerAntigravityQuoted == <<"\"">> \o MarkerAntigravity \o <<"\"">>

has_2tb_m(response_text_) ==
    \/ SubstringIn(Marker2TBSpaced, response_text_)
    \/ SubstringIn(Marker2TBQuoted, response_text_)

has_2tb(response_text_) ==
    \/ SubstringIn(Marker2TBSpaced, response_text_)
    \/ SubstringIn(Marker2TB, response_text_)
    \/ SubstringIn(Marker2TBQuoted, response_text_)

has_antigravity(response_text_) ==
    \/ SubstringIn(MarkerAntigravity, response_text_)
    \/ SubstringIn(MarkerAntigravityQuoted, response_text_)

\* The status strings stand for themselves; "no signal" is NoStatus.
NoStatus == "None"

_parse_api_response(response_text_) ==
    IF has_2tb(response_text_)
    THEN IF has_antigravity(response_text_)
         THEN "subscribed_antigravity"
         ELSE "subscribed"
    ELSE NoStatus

---------------------------------------------------------------------------
(* The page, as the flow sees it. *)

AccountsUrl == "https://accounts.google.com/"
StudentUrl == "https://one.google.com/ai-student?g1_landing_page=75"

\* check_google_login_by_avatar's avatar_selectors, in order
avatar_selectors ==
    << "a[aria-label*=\"Google Account\"] img.gbii",
       "a.gb_B[role=\"button\"] img",
       "a[href*=\"SignOutOptions\"] img",
       "img.gb_Q.gbii" >>

\* _detect_page_elements' offer_selectors, in order
offer_selectors ==
    << "button:has-text(\"Get student offer\")",
       "button:has-text(\"Get offer\")",
       "[data-action=\"offerDetails\"]" >>

\* the substring handle_response looks for in response.url
RpcMarker == <<"rpcids=", "GI6Jdd">>

\* URLs of the responses the page emits
ResponseUrls ==
    { <<"https://one.google.com/_/SubscriptionsUi/data/batchexecute?", "rpcids=", "GI6Jdd", "&rt=c">>,
      <<"https://one.google.com/_/SubscriptionsUi/data/batchexecute?", "rpcids=", "GI6Jd", "&rt=c">>,
      <<"https://one.google.com/ai-student">> }

\* bodies of the responses the page emits
Bodies ==
    { <<>>,
      Marker2TBSpaced,
      Marker2TB \o <<" ">> \o MarkerAntigravity,
      MarkerAntigravity,
      <<"x">> }

\* what a locator's count() answers: no element, some element, or an exception
CountOutcomes == {"none", "some", "raise"}

\* the href of the first a[href*="sheerid.com"] element
AnchorHref == <<"https://", "services.", "sheerid.com", "/verify/a">>

\* what the anchor query of _extract_sheerid_link answers:
\*   count() raises | count() == 0 | first.get_attribute raises |
\*   get_attribute gives None or "" | get_attribute gives AnchorHref
AnchorOutcomes == {"count_raise", "none", "href_raise", "href_falsy", "href"}

\* page.content() raising
ContentRaise == <<"<raise>">>

\* markups page.content() gives: no link, a quoted link, a provider domain
\* outside the quoted URL
Contents ==
    { <<"<html>", "</html>">>,
      <<"<a href=", "\"", "https://", "services.", "sheerid.com", "/verify/b", "\"", ">">>,
      <<"'", "https://", "example.com", "'", "sheerid.com">> }

DomStates ==
    [ pending  : CountOutcomes,      \* page.locator('[jsname="hSRGPd"]').count()
      verified : CountOutcomes,      \* page.locator('[jsname="V67aGc"]').count()
      anchor   : AnchorOutcomes,
      content  : Contents \cup {ContentRaise},
      offers   : [1..Len(offer_selectors) -> CountOutcomes] ]

\* the page answers the flow is followed through (every other combination
\* of answers is covered by the stand-alone classifier runs of SpecDom)
DomSamples ==
    [ pending  : CountOutcomes,
      verified : CountOutcomes,
      anchor   : {"none", "href"},
      content  : { <<"<html>", "</html>">>,
                   <<"<a href=", "\"", "https://", "services.", "sheerid.com", "/verify/b", "\"", ">">> },
      offers   : { [i \in 1..Len(offer_selectors) |-> "none"],
                   [i \in 1..Len(offer_selectors) |->
                        IF i = 1 THEN "raise" ELSE IF i = 2 THEN "some" ELSE "none"] } ]

\* before _extract_sheerid_link has been called
NotExtracted == <<"<not called>">>

\* before _detect_page_elements has asked the page anything
NoDom ==
    [ pending |-> "unasked", verified |-> "unasked", anchor |-> "unasked",
      content |-> <<>>, offers |-> [i \in 1..Len(offer_selectors) |-> "unasked"] ]

---------------------------------------------------------------------------
(* _extract_sheerid_link *)

IsQuote(t) == t \in {"\"", "'"}

\* end of the longest run of pieces after position i that holds no quote
RunEnd(content, i) ==
    CHOOSE j \in i..Len(content) :
        /\ \A k \in (i + 1)..j : ~IsQuote(content[k])
        /\ j = Len(content) \/ IsQuote(content[j + 1])

\* r'https://[^"\']*sheerid\.com[^"\']*' matches starting at position i
MatchesAt(content, i) ==
    /\ content[i] = "https://"
    /\ \E k \in (i + 1)..RunEnd(content, i) : content[k] = "sheerid.com"

\* re.search(...).group(0), or None
re_search(content) ==
    IF \E i \in 1..Len(content) : MatchesAt(content, i)
    THEN LET i == CHOOSE n \in 1..Len(content) :
                      /\ MatchesAt(content, n)
                      /\ \A m \in 1..(n - 1) : ~MatchesAt(content, m)
         IN  SubSeq(content, i, RunEnd(content, i))
    ELSE None

\* method 2: the link found in the page's markup
_extract_from_content(d) ==
    IF d.content = ContentRaise THEN None ELSE re_search(d.content)

\* the markup scan tried first
_extract_sheerid_link_m(d) ==
    CASE d.anchor = "count_raise" -> None
      [] d.anchor = "href_raise"  -> None
      [] d.anchor = "href"        -> IF Truthy(_extract_from_content(d))
                                     THEN _extract_from_content(d)
                                     ELSE AnchorHref
      [] OTHER                    -> _extract_from_content(d)

_extract_sheerid_link(d) ==
    CASE d.anchor = "count_raise" -> None
      [] d.anchor = "href_raise"  -> None
      [] d.anchor = "href"        -> AnchorHref
      [] OTHER                    -> _extract_from_content(d)

---------------------------------------------------------------------------
(* _detect_page_elements: <<status, sheerid_link>> *)

\* rule 4: the first offer selector, at or after i, whose count() > 0;
\* a count() that raises is skipped
RECURSIVE OfferFound(_, _)
OfferFound(d, i) ==
    IF i > Len(offer_selectors) THEN FALSE
    ELSE IF d.offers[i] = "some" THEN TRUE
    ELSE OfferFound(d, i + 1)

\* the outer `except Exception` of _detect_page_elements
OnDetectException == <<"ineligible", None>>

\* rule 1 matched
Rule1Result(d) == <<"link_ready", _extract_sheerid_link(d)>>

\* rule 2 matched
Rule2Result_m(d) == <<"verified", _extract_sheerid_link(d)>>

Rule2Result(d) == <<"verified", None>>

\* rules 3, 4 and 5
RulesFrom3(d) ==
    IF Truthy(_extract_sheerid_link(d))
    THEN <<"link_ready", _extract_sheerid_link(d)>>
    ELSE IF OfferFound(d, 1)
         THEN <<"verified", None>>
         ELSE <<"ineligible", None>>

\* the verified marker looked for before the pending marker
_detect_page_elements_verified_first(d) ==
    CASE d.verified = "raise"  -> OnDetectException
      [] d.verified = "some"   -> Rule2Result(d)
      [] d.pending = "raise"   -> OnDetectException
      [] d.pending = "some"    -> Rule1Result(d)
      [] OTHER                 -> RulesFrom3(d)

\* the link scan run before the verified marker is looked for
_detect_page_elements_link_first(d) ==
    CASE d.pending = "raise"   -> OnDetectException
      [] d.pending = "some"    -> Rule1Result(d)
      [] Truthy(_extract_sheerid_link(d)) -> <<"link_ready", _extract_sheerid_link(d)>>
      [] d.verified = "raise"  -> OnDetectException
      [] d.verified = "some"   -> Rule2Result(d)
      [] OTHER                 -> RulesFrom3(d)

_detect_page_elements(d) ==
    CASE d.pending = "raise"   -> OnDetectException
      [] d.pending = "some"    -> Rule1Result(d)
      [] d.verified = "raise"  -> OnDetectException
      [] d.verified = "some"   -> Rule2Result(d)
      [] OTHER                 -> RulesFrom3(d)

\* the rules of _detect_page_elements that ran to their end
RulesEvaluated(d) ==
    CASE d.pending = "raise"   -> {}
      [] d.pending = "some"    -> {1}
      [] d.verified = "raise"  -> {1}
      [] d.verified = "some"   -> {1, 2}
      [] Truthy(_extract_sheerid_link(d)) -> {1, 2, 3}
      [] OTHER                 -> {1, 2, 3, 4}

---------------------------------------------------------------------------
(* State. *)

\* the flow is suspended in an await of check_google_one_status_v2, so the
\* event loop runs other tasks: the page emits responses, handlers resume
Suspended == {"q_goto", "q_wait_api", "q_wait_idle", "q_detect"}

\* STATUS_PENDING: the status before any check has run
NoResult == [loggedIn |-> FALSE, status |-> "pending_check", link |-> None]

\* how page.remove_listener ends: it returns; it raises after the handler
\* is gone; it raises with the handler still registered
RemoveOutcomes == {"ok", "raise_removed", "raise_kept"}

\* how page.goto and page.wait_for_load_state end
AwaitOutcomes == {"ok", "timeout", "error"}

\* the page before any detection call
InitFlow ==
    /\ pc = "idle"
    /\ calls = 0
    /\ listeners = {}
    /\ is_logged_in = FALSE
    /\ selector_index = 0
    /\ tried = <<>>
    /\ login_nav = "pending"
    /\ visible_log = <<>>
    /\ nav_log = <<>>
    /\ on_calls = 0
    /\ api_response_data = None
    /\ response_received = FALSE
    /\ inflight = <<>>
    /\ nresp = 0
    /\ missed = 0
    /\ timeouts = {}
    /\ failures = {}
    /\ classified_by = "none"
    /\ dom = NoDom
    /\ result = NoResult

Init ==
    /\ InitFlow
    /\ response_text = <<>>
    /\ parse_result = "not_called"
    /\ dom_input = NoDom
    /\ dom_result = <<"not_called", None>>
    /\ extract_result = NotExtracted

parse_vars == <<response_text, parse_result, dom_input, dom_result, extract_result>>
flow_vars == <<pc, calls, listeners, is_logged_in, selector_index, tried, login_nav,
               visible_log, nav_log,
               on_calls, api_response_data, response_received, inflight, nresp, missed,
               timeouts, failures, classified_by, dom, result>>
login_vars == <<selector_index, tried, login_nav, visible_log>>
handler_vars == <<api_response_data, response_received, inflight, nresp, missed>>

---------------------------------------------------------------------------
(* full_google_detection and check_google_login_by_avatar *)

\* A caller invokes full_google_detection(page) on the page, after every
\* earlier call on it has returned (a call that raised ends the run that is
\* followed here).  The call runs up to its first await, the page.goto of
\* check_google_login_by_avatar.
StartCall ==
    /\ pc \in {"idle", "returned"}
    /\ calls < MaxCalls
    /\ calls' = calls + 1
    /\ pc' = "login_goto"
    /\ is_logged_in' = FALSE
    /\ selector_index' = 0
    /\ tried' = <<>>
    /\ login_nav' = "pending"
    /\ visible_log' = <<>>
    /\ nav_log' = <<AccountsUrl>>
    /\ on_calls' = 0
    /\ api_response_data' = None
    /\ response_received' = FALSE
    /\ inflight' = <<>>
    /\ nresp' = 0
    /\ missed' = 0
    /\ timeouts' = {}
    /\ failures' = {}
    /\ classified_by' = "none"
    /\ dom' = NoDom
    /\ result' = NoResult
    /\ UNCHANGED <<listeners, parse_vars>>

\* full_google_detection's `if not is_logged_in`
NotLoggedIn_m(logged) == FALSE

NotLoggedIn(logged) == ~logged

\* page.on("response", handle_response)
add_listener_m(ls, h) == ls

add_listener(ls, h) == ls \cup {h}

\* page.remove_listener("response", handle_response)
remove_listener_m(ls, h) == ls

remove_listener(ls, h) == ls \ {h}

\* check_google_login_by_avatar returned `logged`; full_google_detection
\* goes on to its next await or to its return.  `on` is how page.on ends.
LoginReturns(logged, on) ==
    /\ is_logged_in' = logged
    /\ IF NotLoggedIn(logged)
       THEN /\ pc' = "returned"
            /\ result' = [loggedIn |-> FALSE, status |-> "not_logged_in", link |-> None]
            /\ UNCHANGED <<listeners, nav_log, on_calls, failures>>
       ELSE /\ on_calls' = on_calls + 1
            /\ result' = result
            /\ IF on = "ok"
               THEN /\ listeners' = add_listener(listeners, calls)
                    /\ nav_log' = Append(nav_log, StudentUrl)
                    /\ pc' = "q_goto"
                    /\ UNCHANGED failures
               ELSE /\ pc' = "raised"
                    /\ failures' = failures \cup {"on"}
                    /\ UNCHANGED <<listeners, nav_log>>

\* page.goto(accounts) ends
LoginGoto(outcome) ==
    /\ pc = "login_goto"
    /\ login_nav' = outcome
    /\ IF outcome = "ok"
       THEN /\ pc' = "login_selector"
            /\ selector_index' = 1
            /\ UNCHANGED <<is_logged_in, result, listeners, nav_log,
                           on_calls, failures, timeouts>>
       ELSE /\ LoginReturns(FALSE, "ok")
            /\ timeouts' = IF outcome = "timeout" THEN timeouts \cup {"login_goto"} ELSE timeouts
            /\ UNCHANGED selector_index
    /\ UNCHANGED <<calls, tried, visible_log, handler_vars, classified_by, dom, parse_vars>>

\* `for selector in avatar_selectors`: the selector after the i-th
NextSelector_m(i) == i + 2

NextSelector(i) == i + 1

\* expect(avatar_locator.first).to_be_visible ends for the current selector:
\* the locator is visible, or the wait raised (expiry or any other
\* exception, all caught by the loop's `except Exception: continue`)
LoginSelector(visible, on) ==
    /\ pc = "login_selector"
    /\ tried' = Append(tried, selector_index)
    /\ visible_log' = Append(visible_log, visible)
    /\ IF visible
       THEN /\ LoginReturns(TRUE, on)
            /\ UNCHANGED selector_index
       ELSE IF selector_index < Len(avatar_selectors)
            THEN /\ selector_index' = NextSelector(selector_index)
                 /\ UNCHANGED <<pc, is_logged_in, result, listeners, nav_log, on_calls, failures>>
            ELSE /\ LoginReturns(FALSE, on)
                 /\ UNCHANGED selector_index
    /\ UNCHANGED <<calls, login_nav, timeouts, handler_vars, classified_by, dom, parse_vars>>

---------------------------------------------------------------------------
(* handle_response *)

\* handle_response's `'rpcids=GI6Jdd' in response.url`
IsRpcResponse(url) == SubstringIn(RpcMarker, url)

\* The page emits a response while the qualification check is suspended:
\* page.emit calls the handlers registered then.  This call's
\* handle_response starts and, for a matching URL, suspends in
\* `await response.text()`; a response emitted while it is not registered
\* starts no handler.
Response(url, body) ==
    /\ pc \in Suspended
    /\ nresp < MaxResponses
    /\ nresp' = nresp + 1
    /\ IF IsRpcResponse(url)
       THEN IF calls \in listeners
            THEN /\ inflight' = Append(inflight, body)
                 /\ UNCHANGED missed
            ELSE /\ missed' = missed + 1
                 /\ UNCHANGED inflight
       ELSE UNCHANGED <<inflight, missed>>
    /\ UNCHANGED <<pc, calls, listeners, is_logged_in, login_vars, nav_log,
                   on_calls, api_response_data, response_received, timeouts, failures,
                   classified_by, dom, result, parse_vars>>

\* the sequence without its i-th element
RemoveAt(seq, i) == SubSeq(seq, 1, i - 1) \o SubSeq(seq, i + 1, Len(seq))

\* what a handler whose body read has completed stores
StoreBody_m(stored, text) == stored

StoreBody(stored, text) == text

\* response.text() of the i-th suspended handler returns: the handler stores
\* the text and sets the event, with no await in between.
HandlerStores(i) ==
    /\ pc \in Suspended
    /\ i \in 1..Len(inflight)
    /\ api_response_data' = StoreBody(api_response_data, inflight[i])
    /\ response_received' = TRUE
    /\ inflight' = RemoveAt(inflight, i)
    /\ UNCHANGED <<pc, calls, listeners, is_logged_in, login_vars, nav_log,
                   on_calls, nresp, missed, timeouts, failures, classified_by, dom, result,
                   parse_vars>>

\* response.text() of the i-th suspended handler raises: handle_response's
\* own `except Exception` swallows it.
HandlerFails(i) ==
    /\ pc \in Suspended
    /\ i \in 1..Len(inflight)
    /\ inflight' = RemoveAt(inflight, i)
    /\ UNCHANGED <<pc, calls, listeners, is_logged_in, login_vars, nav_log,
                   on_calls, api_response_data, response_received, nresp, missed, timeouts,
                   failures, classified_by, dom, result, parse_vars>>

---------------------------------------------------------------------------
(* check_google_one_status_v2 *)

\* The `finally` and what follows it: the listener is removed and the call
\* returns (True, st, lk) from full_google_detection; an exception of
\* remove_listener replaces the return.  fl: the failures met so far.
Finish(st, lk, rm, fl) ==
    /\ listeners' = IF rm = "raise_kept" THEN listeners
                    ELSE remove_listener(listeners, calls)
    /\ IF rm = "ok"
       THEN /\ pc' = "returned"
            /\ result' = [loggedIn |-> TRUE, status |-> st, link |-> lk]
            /\ failures' = fl
       ELSE /\ pc' = "raised"
            /\ result' = result
            /\ failures' = fl \cup {"remove_listener"}

\* the `except Exception` of check_google_one_status_v2
OnFlowException == <<"error", None>>

\* page.goto(student page) ends
QualificationGoto(outcome, rm) ==
    /\ pc = "q_goto"
    /\ IF outcome = "ok"
       THEN /\ pc' = "q_wait_api"
            /\ UNCHANGED <<listeners, result, failures, timeouts>>
       ELSE /\ timeouts' = IF outcome = "timeout" THEN timeouts \cup {"goto"} ELSE timeouts
            /\ Finish(OnFlowException[1], OnFlowException[2], rm,
                      IF outcome = "error" THEN failures \cup {"goto"} ELSE failures)
    /\ UNCHANGED <<calls, is_logged_in, login_vars, nav_log, on_calls, handler_vars,
                   classified_by, dom, parse_vars>>

\* asyncio.wait_for(response_received.wait(), timeout) returns: the event is set
WaitResponseSet ==
    /\ pc = "q_wait_api"
    /\ response_received
    /\ pc' = "q_wait_idle"
    /\ UNCHANGED <<calls, listeners, is_logged_in, login_vars, nav_log,
                   on_calls, handler_vars, timeouts, failures, classified_by, dom,
                   result, parse_vars>>

\* asyncio.wait_for raises asyncio.TimeoutError, which is caught and logged
WaitResponseTimeout ==
    /\ pc = "q_wait_api"
    /\ ~response_received
    /\ pc' = "q_wait_idle"
    /\ timeouts' = timeouts \cup {"response"}
    /\ UNCHANGED <<calls, listeners, is_logged_in, login_vars, nav_log,
                   on_calls, handler_vars, failures, classified_by, dom, result,
                   parse_vars>>

\* the captured payload never consulted
ApiStatus_m(data) == NoStatus

\* the status the API classifier gives the captured payload, if any
ApiStatus(data) == IF Truthy(data) THEN _parse_api_response(data) ELSE NoStatus

\* page.wait_for_load_state("networkidle") ends; when it returns, the
\* captured payload is classified, up to the await of _detect_page_elements.
WaitNetworkIdle(outcome, rm) ==
    /\ pc = "q_wait_idle"
    /\ IF outcome = "ok"
       THEN /\ UNCHANGED timeouts
            /\ IF ApiStatus(api_response_data) # NoStatus
               THEN /\ classified_by' = "api"
                    /\ Finish(ApiStatus(api_response_data), None, rm, failures)
               ELSE /\ pc' = "q_detect"
                    /\ UNCHANGED <<classified_by, listeners, result, failures>>
       ELSE /\ timeouts' = IF outcome = "timeout" THEN timeouts \cup {"networkidle"} ELSE timeouts
            /\ classified_by' = classified_by
            /\ Finish(OnFlowException[1], OnFlowException[2], rm,
                      IF outcome = "error" THEN failures \cup {"networkidle"} ELSE failures)
    /\ UNCHANGED <<calls, is_logged_in, login_vars, nav_log, on_calls, handler_vars,
                   dom, parse_vars>>

\* _detect_page_elements(page) runs against a page answering d, and returns
DetectPageElements(d, rm) ==
    /\ pc = "q_detect"
    /\ dom' = d
    /\ classified_by' = "dom"
    /\ Finish(_detect_page_elements(d)[1], _detect_page_elements(d)[2], rm, failures)
    /\ UNCHANGED <<calls, is_logged_in, login_vars, nav_log, on_calls, handler_vars,
                   timeouts, parse_vars>>

---------------------------------------------------------------------------

Next ==
    \/ StartCall
    \/ \E outcome \in AwaitOutcomes : LoginGoto(outcome)
    \/ \E visible \in BOOLEAN, on \in {"ok", "raise"} : LoginSelector(visible, on)
    \/ \E url \in ResponseUrls, body \in Bodies : Response(url, body)
    \/ \E i \in 1..MaxResponses : HandlerStores(i)
    \/ \E i \in 1..MaxResponses : HandlerFails(i)
    \/ \E outcome \in AwaitOutcomes, rm \in RemoveOutcomes : QualificationGoto(outcome, rm)
    \/ WaitResponseSet
    \/ WaitResponseTimeout
    \/ \E outcome \in AwaitOutcomes, rm \in RemoveOutcomes : WaitNetworkIdle(outcome, rm)
    \/ \E d \in DomSamples, rm \in RemoveOutcomes : DetectPageElements(d, rm)

Spec == Init /\ [][Next]_vars

\* the next step of the flow of a call in progress: the end of the await it
\* is suspended in
FlowStep ==
    \/ \E outcome \in AwaitOutcomes : LoginGoto(outcome)
    \/ \E visible \in BOOLEAN, on \in {"ok", "raise"} : LoginSelector(visible, on)
    \/ \E outcome \in AwaitOutcomes, rm \in RemoveOutcomes : QualificationGoto(outcome, rm)
    \/ WaitResponseSet
    \/ WaitResponseTimeout
    \/ \E outcome \in AwaitOutcomes, rm \in RemoveOutcomes : WaitNetworkIdle(outcome, rm)
    \/ \E d \in DomSamples, rm \in RemoveOutcomes : DetectPageElements(d, rm)

\* Every await of the flow carries a timeout (goto, to_be_visible, wait_for,
\* wait_for_load_state) or answers at once (count, content), and the event
\* loop resumes a task whose await has ended: the flow's next step is
\* taken.  Nothing makes the page emit responses or a caller call again.
SpecLive == Init /\ [][Next]_vars /\ WF_vars(FlowStep)

---------------------------------------------------------------------------
(* _parse_api_response on its own, over assembled payloads *)

\* the pieces payloads are assembled from: parts of the markers, the markers
\* in another case or cut short, and text that is no marker
Fragments ==
    { <<"2">>, <<" ">>, <<"T", "B">>, <<"T">>, <<"\"">>,
      MarkerAntigravity,
      <<"a", "n", "t", "i", "g", "r", "a", "v", "i", "t", "y">>,
      <<"A", "n", "t", "i", "g", "r", "a", "v", "i", "t">> }

\* the texts made of at most n pieces
RECURSIVE Payloads(_)
Payloads(n) ==
    IF n = 0 THEN {<<>>}
    ELSE Payloads(n - 1) \cup {p \o f : p \in Payloads(n - 1), f \in Fragments}

InitParse ==
    /\ InitFlow
    /\ response_text \in Payloads(MaxFrags)
    /\ parse_result = "not_called"
    /\ dom_input = NoDom
    /\ dom_result = <<"not_called", None>>
    /\ extract_result = NotExtracted

\* a call _parse_api_response(response_text)
ParseCall ==
    /\ parse_result = "not_called"
    /\ parse_result' = _parse_api_response(response_text)
    /\ UNCHANGED <<flow_vars, response_text, dom_input, dom_result, extract_result>>

SpecParse == InitParse /\ [][ParseCall]_vars

---------------------------------------------------------------------------
(* _detect_page_elements on its own, over every combination of answers *)

InitDom ==
    /\ InitFlow
    /\ response_text = <<>>
    /\ parse_result = "not_called"
    /\ dom_input \in DomStates
    /\ dom_result = <<"not_called", None>>
    /\ extract_result = NotExtracted

\* a call _detect_page_elements(page) on a page answering dom_input
DetectCall ==
    /\ dom_result[1] = "not_called"
    /\ dom_result' = _detect_page_elements(dom_input)
    /\ UNCHANGED <<flow_vars, response_text, parse_result, dom_input, extract_result>>

\* a call _extract_sheerid_link(page) on a page answering dom_input
ExtractCall ==
    /\ extract_result = NotExtracted
    /\ extract_result' = _extract_sheerid_link(dom_input)
    /\ UNCHANGED <<flow_vars, response_text, parse_result, dom_input, dom_result>>

SpecDom == InitDom /\ [][DetectCall \/ ExtractCall]_vars

---------------------------------------------------------------------------
(* Properties. *)

\* the awaits of check_google_one_status_v2 that are in progress
PendingAwaits ==
    CASE pc = "q_goto"      -> {"goto"}
      [] pc = "q_wait_api"  -> {"response_received"}
      [] pc = "q_wait_idle" -> {"networkidle"}
      [] pc = "q_detect"    -> {"_detect_page_elements"}
      [] OTHER              -> {}

\* the time bounds of the qualification check
QualificationBounds == {"goto", "response", "networkidle"}

\* C1: when a detection call returns, whichever way the qualification check
\* ended, its response listener is no longer registered on the page; after
\* any sequence of completed calls the page has no response listener left.
C1_NoListenerAfterReturn ==
    pc \in {"idle", "returned"} => listeners = {}

\* a second call on the page returned through the exception path of the
\* qualification check, after its listener had been registered
C1_Witness ==
    /\ pc = "returned"
    /\ calls > 1
    /\ on_calls = 1
    /\ result.status = "error"
    /\ "networkidle" \in timeouts
    /\ listeners = {}

\* C2: a qualification check in which only time bounds were exceeded (the
\* navigation, the wait for the captured response, the network-idle wait)
\* still reaches a classifier, and its status is not `error`.
C2_TimeoutsDegrade ==
    ( /\ pc = "returned"
      /\ is_logged_in
      /\ timeouts \cap QualificationBounds # {}
      /\ failures = {} )
    => /\ classified_by # "none"
       /\ result.status # "error"

\* C3 as claimed: a returned result has an evidence link if and only if its
\* status is link_ready.
C3_LinkIffLinkReady ==
    pc = "returned" => (result.link # None <=> result.status = "link_ready")

\* C3 as amended: a returned result has an evidence link only if its status
\* is link_ready; a link_ready result without a link comes from rule 1 alone,
\* the pending marker being present and the extractor finding no link.
C3_LinkOnlyIfLinkReady ==
    pc = "returned" =>
        /\ result.link # None => (result.status = "link_ready" /\ Truthy(result.link))
        /\ (result.status = "link_ready" /\ result.link = None) =>
               /\ classified_by = "dom"
               /\ dom.pending = "some"
               /\ ~Truthy(_extract_sheerid_link(dom))

\* the DOM fallback returned link_ready with a link while the page showed
\* the verified marker too
C3_Witness ==
    /\ pc = "returned"
    /\ classified_by = "dom"
    /\ dom.verified = "some"
    /\ result.status = "link_ready"
    /\ result.link = AnchorHref

\* C4: while the login check has not said "logged in", no response listener
\* is subscribed and the student page is not navigated to; and a call whose
\* login check said "not logged in" returns (False, not_logged_in, None).
C4_NotLoggedInShortCircuit ==
    ~is_logged_in =>
        /\ on_calls = 0
        /\ calls \notin listeners
        /\ \A i \in 1..Len(nav_log) : nav_log[i] # StudentUrl
        /\ pc = "returned" =>
               result = [loggedIn |-> FALSE, status |-> "not_logged_in", link |-> None]

\* the call returned after every avatar selector's wait had expired
C4_Witness ==
    /\ pc = "returned"
    /\ ~is_logged_in
    /\ tried = <<1, 2, 3, 4>>
    /\ result.status = "not_logged_in"

\* C5: within one qualification check, once a payload is stored no later
\* step changes it.
C5_StoredAtMostOnce ==
    [][(api_response_data # None /\ calls' = calls)
            => api_response_data' = api_response_data]_vars

\* C6: after the navigation the two waits are pending together: while the
\* flow awaits the captured response it awaits the network-idle state too.
C6_WaitsPendingTogether ==
    "response_received" \in PendingAwaits => "networkidle" \in PendingAwaits

\* C7: no call ends by raising, whatever the page's operations do, and a
\* failure inside the qualification flow gives status error and no link.
C7_NeverRaises ==
    /\ pc # "raised"
    /\ (pc = "returned" /\ is_logged_in /\ failures # {}) =>
           (result.status = "error" /\ result.link = None)

\* C8: the DOM fallback answers ineligible only after all four rules ran to
\* their end without matching.
C8_IneligibleAfterAllRules ==
    dom_result[1] = "ineligible" => RulesEvaluated(dom_input) = {1, 2, 3, 4}

\* a count() answer with an exception read as "no element"
AsNoMatch(outcome) == IF outcome = "raise" THEN "none" ELSE outcome

\* the decision list of the DOM fallback with every failing query read as
\* "rule did not match"
DecisionListSkippingFailures(d) ==
    CASE AsNoMatch(d.pending) = "some"      -> <<"link_ready", _extract_sheerid_link(d)>>
      [] AsNoMatch(d.verified) = "some"     -> <<"verified", None>>
      [] Truthy(_extract_sheerid_link(d))   -> <<"link_ready", _extract_sheerid_link(d)>>
      [] \E i \in 1..Len(offer_selectors) : d.offers[i] = "some" -> <<"verified", None>>
      [] OTHER                              -> <<"ineligible", None>>

\* C9: an exception while evaluating one rule of the DOM fallback counts as
\* that rule not matching, and the next rule is evaluated.
C9_RuleFailureSkipsRule ==
    dom_result[1] # "not_called" => dom_result = DecisionListSkippingFailures(dom_input)

\* the text holds the marker at some position
Occurs(marker, text) ==
    \E i \in 1..Len(text) :
        /\ i + Len(marker) - 1 <= Len(text)
        /\ SubSeq(text, i, i + Len(marker) - 1) = marker

\* the text holds a high-tier-storage marker
OccursStorage(text) == Occurs(Marker2TBSpaced, text) \/ Occurs(Marker2TB, text)

\* C10: _parse_api_response gives subscribed_antigravity for a text with a
\* storage marker ("2 TB" or "2TB") and "Antigravity", subscribed for a text
\* with a storage marker and no "Antigravity", and no signal for any other
\* text, the empty one and one with "Antigravity" alone included.
C10_ParseIsMarkerFunction ==
    parse_result # "not_called" =>
        parse_result =
            IF OccursStorage(response_text) /\ Occurs(MarkerAntigravity, response_text)
            THEN "subscribed_antigravity"
            ELSE IF OccursStorage(response_text) THEN "subscribed" ELSE NoStatus

\* a text with "2TB" (no space) and "Antigravity" was classified
C10_Witness ==
    /\ parse_result = "subscribed_antigravity"
    /\ ~Occurs(Marker2TBSpaced, response_text)
    /\ Len(response_text) > Len(MarkerAntigravity)

\* C11: whenever the page shows both the pending marker (hSRGPd) and the
\* verified marker (V67aGc), the DOM fallback answers link_ready, whether or
\* not a link can be extracted and whether or not offer buttons exist.
C11_PendingBeatsVerified ==
    ( /\ dom_result[1] # "not_called"
      /\ dom_input.pending = "some"
      /\ dom_input.verified = "some" )
    => dom_result[1] = "link_ready"

\* both markers shown, no link extractable, an offer button present
C11_Witness ==
    /\ dom_result[1] = "link_ready"
    /\ dom_input.pending = "some"
    /\ dom_input.verified = "some"
    /\ dom_result[2] = None
    /\ \E i \in 1..Len(offer_selectors) : dom_input.offers[i] = "some"

\* what the API classifier says of the payload captured so far
CapturedSignal ==
    IF api_response_data # None THEN _parse_api_response(api_response_data) ELSE NoStatus

\* the step in which the network-idle wait returns and classification begins
ClassificationBegins ==
    /\ pc = "q_wait_idle"
    /\ pc' # "q_wait_idle"
    /\ "networkidle" \notin (timeouts' \cup failures')

\* C12: when classification begins, a captured payload with a definite API
\* status ends the check with exactly that status and no link, without the
\* DOM fallback; the DOM fallback is invoked exactly when no payload was
\* captured or the API classifier gave no signal.
C12_ApiBeforeDom ==
    [][ /\ ClassificationBegins =>
              IF CapturedSignal # NoStatus
              THEN /\ classified_by' = "api"
                   /\ pc' # "q_detect"
                   /\ pc' = "returned" =>
                          result' = [loggedIn |-> TRUE, status |-> CapturedSignal, link |-> None]
              ELSE pc' = "q_detect"
        /\ (pc' = "q_detect" /\ pc # "q_detect") => ClassificationBegins
        /\ (classified_by' = "dom" /\ classified_by # "dom") => pc = "q_detect"
      ]_vars

\* a captured payload was classified by the API classifier and the call
\* returned without the page being asked anything
C12_Witness ==
    /\ pc = "returned"
    /\ classified_by = "api"
    /\ result.status = "subscribed_antigravity"
    /\ result.link = None
    /\ dom = NoDom

\* a call is in progress
InCall == pc \notin {"idle", "returned", "raised"}

\* C13: every call of full_google_detection eventually returns a result,
\* whatever the page does.
C13_EventuallyReturns == InCall ~> (pc = "returned")

\* every call eventually ends, by returning or by raising
EventuallyEnds == InCall ~> (pc \in {"returned", "raised"})

\* C14: the response listener is registered before the navigation to the
\* qualification surface is issued: whenever that navigation has been issued
\* page.on has been called, from then until the call ends the handler is
\* registered, and no matching response emitted in between goes unobserved.
C14_ListenerBeforeNavigation ==
    /\ (Len(nav_log) = 2 /\ nav_log[2] = StudentUrl) => on_calls = 1
    /\ pc \in Suspended => calls \in listeners
    /\ missed = 0

C14_Witness ==
    /\ pc = "q_detect"
    /\ nresp = MaxResponses
    /\ api_response_data # None
    /\ Len(inflight) = MaxResponses - 1
    /\ missed = 0

\* C15: when the interceptor wait ended by timeout, a matching response
\* arriving afterwards, during the page-settled wait, does not influence the
\* result: a call that went on to classify the account classified it by the
\* DOM fallback.
C15_LateResponseDiscarded ==
    ( /\ pc = "returned"
      /\ "response" \in timeouts
      /\ "networkidle" \notin (timeouts \cup failures) )
    => classified_by = "dom"

\* the login check of the current call has returned
LoginDone == pc \notin {"idle", "login_goto", "login_selector"}

\* C16: check_google_login_by_avatar tries the avatar locators in registry
\* order after a successful navigation; it returns true at the first locator
\* that becomes visible, trying no later one; it returns false if every
\* locator's wait expires; when the navigation fails it returns false
\* without trying any locator.
C16_FirstVisibleLocator ==
    /\ Len(tried) = Len(visible_log)
    /\ Len(tried) <= Len(avatar_selectors)
    /\ \A i \in 1..Len(tried) : tried[i] = i
    /\ \A i \in 1..(Len(tried) - 1) : ~visible_log[i]
    /\ login_nav # "ok" => tried = <<>>
    /\ pc = "login_selector" =>
           /\ login_nav = "ok"
           /\ selector_index = Len(tried) + 1
           /\ \A i \in 1..Len(tried) : ~visible_log[i]
    /\ LoginDone =>
           /\ login_nav \in {"ok", "timeout", "error"}
           /\ login_nav # "ok" => ~is_logged_in
           /\ is_logged_in <=> (tried # <<>> /\ visible_log[Len(tried)])
           /\ (login_nav = "ok" /\ ~is_logged_in) => Len(tried) = Len(avatar_selectors)

C16_Witness ==
    /\ LoginDone
    /\ is_logged_in
    /\ tried = <<1, 2, 3>>
    /\ visible_log = <<FALSE, FALSE, TRUE>>

\* what the markup scan alone gives on a page
MarkupScan(d) == IF d.content = ContentRaise THEN None ELSE re_search(d.content)

\* the first matching anchor's href, as get_attribute gave it
FirstAnchorHref(d) == IF d.anchor = "href" THEN AnchorHref ELSE None

C18_VerifiedBeatsLink ==
    dom_result[1] # "not_called" =>
        /\ ( /\ dom_input.pending = "none"
             /\ dom_input.verified = "some"
             /\ Truthy(_extract_sheerid_link(dom_input)) )
           => dom_result = <<"verified", None>>
        /\ ( /\ dom_input.pending # "some"
             /\ dom_result[1] = "link_ready" )
           => /\ dom_input.verified # "some"
              /\ dom_result[2] = _extract_sheerid_link(dom_input)
              /\ Truthy(dom_result[2])

C18_Witness ==
    /\ dom_result = <<"verified", None>>
    /\ dom_input.pending = "none"
    /\ dom_input.verified = "some"
    /\ dom_input.anchor = "href"

C18_WitnessLinkOnly ==
    /\ dom_result = <<"link_ready", AnchorHref>>
    /\ dom_input.pending = "none"
    /\ dom_input.verified = "none"

\* a step of the current qualification check (no new call starts)
SameCheck == calls' = calls

\* C19: in every state of a qualification check, if the completion signal is
\* set a captured payload is stored; the payload and the signal change only
\* together, in the one step in which a body read completes (no suspension
\* point between the store and the set); the signal, once set, is not reset
\* during the check; a body read that fails sets no signal and stores no
\* payload, so with the signal unset no payload is stored.
C19_SignalImpliesPayload ==
    /\ [](response_received <=> api_response_data # None)
    /\ [][ SameCheck =>
             /\ response_received => response_received'
             /\ (response_received' # response_received
                   \/ api_response_data' # api_response_data)
                => /\ response_received'
                   /\ \E i \in 1..Len(inflight) :
                          /\ api_response_data' = inflight[i]
                          /\ inflight' = RemoveAt(inflight, i)
             /\ (Len(inflight') < Len(inflight) /\ ~response_received')
                => api_response_data' = None
         ]_vars

C19_Witness ==
    /\ pc = "q_wait_api"
    /\ response_received
    /\ api_response_data = <<"2", " ", "T", "B">>
    /\ nresp = MaxResponses
    /\ inflight = <<>>

====
